---- MODULE Spec2Model ----
(***************************************************************************)
(* Model of the onelyid middleware (packages/client/index.ts): the         *)
(* detached bootstrap task, the request gate, one-time route registration  *)
(* and lazy construction of the protocol client.                           *)
(*                                                                         *)
(* JavaScript runs one task at a time, so every stretch of code between    *)
(* two awaits is one atomic action.  The await points are                  *)
(*   bootstrap: await migrateToLatest, await getOrCreateCookieSecret       *)
(*   gate:      await createClient                                         *)
(***************************************************************************)
EXTENDS Integers, Sequences, FiniteSets, TLC

\* ------------------------------------------------------------------ bounds
\* Number of requests sent to the middleware instance.
MaxReqs == 2

Reqs == 1..MaxReqs

\* ------------------------------------------------------- values and inputs
\* JavaScript null / undefined.
NULL == "null"
Absent == "<undefined>"

\* ./const (not under src/): the sentinel of a malformed public URL and the
\* default mount path.  The sentinel is a non-empty string distinct from "".
INVALID == "INVALID"
DEFAULT_MOUNT_PATH == "/oauth"

\* A thrown value that is falsy in JavaScript (throw undefined, throw 0, ...).
FalsyThrow == "<falsy>"

\* `if (initError)`, line 77.
Truthy(e) == e \notin {NULL, FalsyThrow, ""}

\* Host headers a request may carry: name and port portion.
Hosts ==
    { [name |-> "api.example.com", port |-> Absent],
      [name |-> "localhost", port |-> "4000"],
      [name |-> "bad host", port |-> Absent] }

Protocols == {"http", "https"}

\* req.get('host')
HostHeader(h) == IF h.port = Absent THEN h.name ELSE h.name \o ":" \o h.port

\* host?.split(':')[1] ?? ''   (line 91)
PortOf(h) == IF h.port = Absent THEN "" ELSE h.port

\* Host names the URL parser accepts.
WellFormedNames == {"api.example.com", "localhost"}

\* The strings that parse as an absolute http/https URL.
AbsoluteHttpUrls ==
    { p \o "://" \o HostHeader(h) : p \in Protocols,
                                   h \in {x \in Hosts : x.name \in WellFormedNames} }
      \cup {"https://example.com"}

\* ./utils assertPublicUrl (not under src/; spec 4.1 normalizePublicUrl):
\* absent -> "", an absolute http/https URL -> itself, anything else -> INVALID.
assertPublicUrl(input) ==
    IF input = Absent \/ input = "" THEN ""
    ELSE IF input \in AbsoluteHttpUrls THEN input
    ELSE INVALID

\* ./utils assertPath (not under src/; spec 4.1 normalizeMountPath): absent ->
\* the default mount path, otherwise the leading-slash, no-trailing-slash
\* form; structurally invalid input throws (PathThrows).
PathThrows(input) == input = "bad path"

assertPath(input) ==
    IF input = Absent THEN DEFAULT_MOUNT_PATH
    ELSE IF input \in {"/auth", "auth/", "/auth/"} THEN "/auth"
    ELSE IF input \in {"/home", "home/"} THEN "/home"
    ELSE input

\* OnelyidConfig (types.ts): the configurations an instance can be built with.
\* A mountPath on which assertPath throws aborts construction (line 46), so
\* no instance exists for it.
Configs ==
    [ publicUrl     : {Absent, "https://example.com", "not a url"},
      cookieSecret  : {Absent, "static-secret"},
      mountPath     : {Absent, "auth/"},
      loginRedirect : {Absent, "/home", "bad path"} ]

\* --------------------------------------------------------------- state
VARIABLES
    config,            \* the OnelyidConfig the instance was built with
    globals,           \* RespGlobals, lines 31-46
    initError,         \* line 48
    routesRegistered,  \* line 49
    ctx,               \* AppContext, lines 50-55 (db, oauthClient, resolver)
    bpc,               \* where the bootstrap task (lines 58-73) stands
    routes,            \* the router's stack of bound route paths
    req,               \* per request: where it stands (new, createClient, next, done)
    resp,              \* the response sent last: the request, who sent it, its
                       \* kind and body, and what the handler did on the way
    migrated,          \* history: migrateToLatest has completed
    threw,             \* history: a bootstrap step has thrown
    nFetch,            \* history: calls of getOrCreateCookieSecret
    nDetect,           \* history: executions of the detection block, 85-93
    nCreate            \* history: calls of createClient

vars == << config, globals, initError, routesRegistered, ctx, bpc, routes, req,
           resp, migrated, threw, nFetch, nDetect, nCreate >>

\* A response to request r sent by `by` (the gate or one of the handlers).
\* handle: the login's query parameter; authorize: the handle given to
\* oauthClient.authorize; exchanged: the did oauthClient.callback returned;
\* did: the did of the session that was saved.
Response(r, by, kind, body) ==
    [ req |-> r, by |-> by, kind |-> kind, body |-> body,
      handle |-> NULL, authorize |-> NULL, exchanged |-> NULL, did |-> NULL ]

NoResp == Response(0, "none", "none", "")

\* ------------------------------------------------------ bootstrap, 57-73
\* What a bootstrap step may throw.
ThrownBy(step) == {"Error: " \o step, FalsyThrow}

\* What getOrCreateCookieSecret may resolve to (a string).
Secrets == {"generated-secret", ""}

\* A task that goes on with the next step after the catch.
AfterCatch_Resume(step) ==
    IF step = "migrate" THEN "secret" ELSE "done"

\* catch (err) { initError = err }: the task ends, lines 70-72.

AfterCatch(step) == "done"

Catch(step, e) ==
    /\ initError' = e
    /\ threw' = TRUE
    /\ bpc' = AfterCatch(step)

\* Lines 68-69, run in the same task as the step before them.
\* outcome "ok" or the value thrown.
ConstructResolver(c, outcome) ==
    IF outcome = "ok"
    THEN /\ ctx' = [c EXCEPT !.resolver = "resolver"]
         /\ bpc' = "done"
         /\ UNCHANGED << initError, threw >>
    ELSE /\ ctx' = c
         /\ Catch("resolver", outcome)

\* onelyidMiddleware, lines 28-73 up to the first await: globals from the
\* config, then the task runs createDb synchronously and suspends in
\* migrateToLatest, unless createDb (or getDatabasePath) threw.
Init ==
    /\ config \in Configs
    /\ globals = [ cookieSecret |-> IF config.cookieSecret = Absent THEN ""
                                    ELSE config.cookieSecret,
                   publicUrl    |-> assertPublicUrl(config.publicUrl),
                   mountPath    |-> assertPath(config.mountPath),
                   baseUrl      |-> "",
                   prefixPath   |-> "",
                   prefixRoute  |-> "",
                   basePath     |-> "" ]
    /\ routesRegistered = FALSE
    /\ routes = << >>
    /\ req = [r \in Reqs |-> "new"]
    /\ resp = NoResp
    /\ migrated = FALSE
    /\ nFetch = 0
    /\ nDetect = 0
    /\ nCreate = 0
    /\ \/ /\ ctx = [db |-> "db", oauthClient |-> NULL, resolver |-> NULL]
          /\ initError = NULL
          /\ threw = FALSE
          /\ bpc = "migrate"
       \/ /\ ctx = [db |-> NULL, oauthClient |-> NULL, resolver |-> NULL]
          /\ initError \in ThrownBy("createDb")
          /\ threw = TRUE
          /\ bpc = "done"

NeedsSecret_Always(g) == TRUE

\* if (!globals.cookieSecret), line 64.
NeedsSecret(g) == g.cookieSecret = ""

\* await migrateToLatest(ctx.db) resolves; lines 64-69 follow.
MigrateDone ==
    /\ bpc = "migrate"
    /\ migrated' = TRUE
    /\ IF NeedsSecret(globals)
       THEN /\ bpc' = "secret"
            /\ nFetch' = nFetch + 1
            /\ UNCHANGED << ctx, initError, threw >>
       ELSE /\ \E outcome \in {"ok"} \cup ThrownBy("resolver") :
                 ConstructResolver(ctx, outcome)
            /\ UNCHANGED nFetch
    /\ UNCHANGED << config, globals, routesRegistered, routes, req, nDetect,
                    nCreate, resp >>

\* await migrateToLatest(ctx.db) rejects.
MigrateThrows ==
    /\ bpc = "migrate"
    /\ \E e \in ThrownBy("migrate") : Catch("migrate", e)
    /\ UNCHANGED << config, globals, routesRegistered, ctx, routes, req,
                    migrated, nFetch, nDetect, nCreate,
                    resp >>

\* await getOrCreateCookieSecret(ctx.db) resolves; lines 65-69.
SecretDone ==
    /\ bpc = "secret"
    /\ \E s \in Secrets : globals' = [globals EXCEPT !.cookieSecret = s]
    /\ \E outcome \in {"ok"} \cup ThrownBy("resolver") :
          ConstructResolver(ctx, outcome)
    /\ UNCHANGED << config, routesRegistered, routes, req, migrated, nFetch,
                    nDetect, nCreate , resp >>

\* await getOrCreateCookieSecret(ctx.db) rejects.
SecretThrows ==
    /\ bpc = "secret"
    /\ \E e \in ThrownBy("secret") : Catch("secret", e)
    /\ UNCHANGED << config, globals, routesRegistered, ctx, routes, req,
                    migrated, nFetch, nDetect, nCreate,
                    resp >>

\* ----------------------------------------------------- request gate, 76-125
\* Lines 77-82 with the checks in the other order.
GateState_PendingFirst(err, c, g) ==
    IF c.db = NULL \/ g.cookieSecret = "" \/ c.resolver = NULL THEN "PENDING"
    ELSE IF Truthy(err) THEN "FAILED"
    ELSE "READY"

\* Lines 77-82 without the test of the resolver.
GateState_NoResolver(err, c, g) ==
    IF Truthy(err) THEN "FAILED"
    ELSE IF c.db = NULL \/ g.cookieSecret = "" THEN "PENDING"
    ELSE "READY"

\* The gate's reading of the bootstrap state, lines 77-82.
GateState(err, c, g) ==
    IF Truthy(err) THEN "FAILED"
    ELSE IF c.db = NULL \/ g.cookieSecret = "" \/ c.resolver = NULL THEN "PENDING"
    ELSE "READY"

NeedsDetect_Always(g) == TRUE

\* if (!globals.publicUrl), line 84.
NeedsDetect(g) == g.publicUrl = ""

\* Lines 85-93: the globals after detection from the request.
DetectPublicUrl(g, protocol, host) ==
    LET detectedPublicUrl == assertPublicUrl(protocol \o "://" \o HostHeader(host))
        port == PortOf(host)
    IN  IF detectedPublicUrl # ""
        THEN [g EXCEPT !.publicUrl = detectedPublicUrl,
                       !.baseUrl = detectedPublicUrl]
        ELSE [g EXCEPT !.baseUrl = "http://127.0.0.1" \o
                           (IF port = "80" THEN "" ELSE ":" \o port)]

IsInvalidPublicUrl_Never(g) == FALSE

\* if (globals.publicUrl === INVALID), line 96.
IsInvalidPublicUrl(g) == g.publicUrl = INVALID

NeedsBasePath_Always(g) == TRUE

\* if (!globals.basePath), line 100.
NeedsBasePath(g) == g.basePath = ""

\* Lines 101-109: prefixPath, prefixRoute and basePath from req.baseUrl.
ResolveBasePath(g, baseUrl) ==
    LET prefixPath == IF baseUrl # "" THEN baseUrl \o g.mountPath
                      ELSE IF g.mountPath # "" THEN g.mountPath
                      ELSE DEFAULT_MOUNT_PATH
        prefixRoute == IF baseUrl # "" THEN g.mountPath ELSE prefixPath
    IN  [g EXCEPT !.prefixPath = prefixPath,
                  !.prefixRoute = prefixRoute,
                  !.basePath = g.baseUrl \o prefixPath]

NeedsRegister_Always(registered) == TRUE

\* if (!routesRegistered), line 112.
NeedsRegister(registered) == ~registered

Endpoints == <<"/client-metadata.json", "/callback", "/login", "/userinfo">>

\* registerRoutes, lines 130-201: the four route paths it binds, in order.
registerRoutes(g) == [i \in 1..4 |-> g.prefixRoute \o Endpoints[i]]

NeedsClient_Never(c) == FALSE

\* if (!ctx.oauthClient), line 117.
NeedsClient(c) == c.oauthClient = NULL

\* req.baseUrl: the prefix under which the host mounted the router.
MountPrefixes == {"", "/api"}

Send(r, response) ==
    /\ req' = [req EXCEPT ![r] = "done"]
    /\ resp' = response

Respond(r, kind, body) == Send(r, Response(r, "gate", kind, body))

\* Requests are numbered in order of arrival.
Arrives(r) ==
    /\ req[r] = "new"
    /\ \A q \in Reqs : q < r => req[q] # "new"

\* Lines 77-79: bootstrap failed, the error goes to next().
GateFailed(r) ==
    /\ Arrives(r)
    /\ GateState(initError, ctx, globals) = "FAILED"
    /\ Respond(r, "next(err)", initError)
    /\ UNCHANGED << config, globals, initError, routesRegistered, ctx, bpc,
                    routes, migrated, threw, nFetch, nDetect, nCreate >>

\* Lines 80-82: bootstrap pending, 503.
GatePending(r) ==
    /\ Arrives(r)
    /\ GateState(initError, ctx, globals) = "PENDING"
    /\ Respond(r, "503", "Service initializing")
    /\ UNCHANGED << config, globals, initError, routesRegistered, ctx, bpc,
                    routes, migrated, threw, nFetch, nDetect, nCreate >>

\* Lines 84-119, up to the await of createClient or, with a client already
\* there, up to next().
GateReady(r) ==
    /\ Arrives(r)
    /\ GateState(initError, ctx, globals) = "READY"
    /\ \E protocol \in Protocols, host \in Hosts, baseUrl \in MountPrefixes :
         LET detect == NeedsDetect(globals)
             g1 == IF detect THEN DetectPublicUrl(globals, protocol, host)
                   ELSE globals
             g2 == IF NeedsBasePath(g1) THEN ResolveBasePath(g1, baseUrl) ELSE g1
         IN  /\ nDetect' = IF detect THEN nDetect + 1 ELSE nDetect
             /\ IF IsInvalidPublicUrl(g1)
                THEN /\ globals' = g1
                     /\ Respond(r, "503", "Invalid publicUrl provided!")
                     /\ UNCHANGED << routesRegistered, routes, nCreate >>
                ELSE /\ globals' = g2
                     /\ routes' = IF NeedsRegister(routesRegistered)
                                  THEN routes \o registerRoutes(g2)
                                  ELSE routes
                     /\ routesRegistered' = TRUE
                     /\ resp' = resp
                     /\ IF NeedsClient(ctx)
                        THEN /\ nCreate' = nCreate + 1
                             /\ req' = [req EXCEPT ![r] = "createClient"]
                        ELSE /\ nCreate' = nCreate
                             /\ req' = [req EXCEPT ![r] = "next"]
    /\ UNCHANGED << config, initError, ctx, bpc, migrated, threw, nFetch >>

\* ./oauth-client createClient: every call builds a client object of its own.
NewClient(r) == "client#" \o ToString(r)

\* await createClient(ctx, globals) resolves: line 118 assigns the client,
\* lines 122-124 install res.json and call next().
CreateClientDone(r) ==
    /\ req[r] = "createClient"
    /\ ctx' = [ctx EXCEPT !.oauthClient = NewClient(r)]
    /\ req' = [req EXCEPT ![r] = "next"]
    /\ UNCHANGED << config, globals, initError, routesRegistered, bpc, routes,
                    migrated, threw, nFetch, nDetect, nCreate,
                    resp >>

\* await createClient(ctx, globals) rejects: the gate's promise rejects and
\* neither next() nor a response follows.
CreateClientThrows(r) ==
    /\ req[r] = "createClient"
    /\ Respond(r, "rejected", "Error: createClient")
    /\ UNCHANGED << config, globals, initError, routesRegistered, ctx, bpc,
                    routes, migrated, threw, nFetch, nDetect, nCreate >>

\* --------------------------------------------- route handlers, 130-201
\* Paths a request may ask for, relative to where the router is mounted.
RequestPaths ==
    { m \o Endpoints[i] : m \in {"/oauth", "/auth"}, i \in 1..4 } \cup {"/"}

\* The router's dispatch after the gate's next(): the first bound route whose
\* path equals the request's, as the index of its endpoint; 0 when none does.
Match(path) ==
    LET hits == { i \in 1..Len(routes) : routes[i] = path }
    IN  IF hits = {} THEN 0
        ELSE LET first == CHOOSE i \in hits : \A j \in hits : i <= j
             IN  ((first - 1) % 4) + 1

Dispatched(r, endpoint) ==
    /\ req[r] = "next"
    /\ \E path \in RequestPaths : Match(path) = endpoint

HandlerFrame ==
    UNCHANGED << config, globals, initError, routesRegistered, ctx, bpc,
                 routes, migrated, threw, nFetch, nDetect, nCreate >>

\* handler(), lines 14-26: what the wrapped function throws goes to next().
HandlerThrows(r, response, err) ==
    Send(r, [response EXCEPT !.kind = "next(err)", !.body = err])

\* No route matches: the request leaves the router for the host application.
PassThrough(r) ==
    /\ Dispatched(r, 0)
    /\ Send(r, Response(r, "router", "passthrough", ""))
    /\ HandlerFrame

\* Lines 132-137.
HandleMetadata(r) ==
    /\ Dispatched(r, 1)
    /\ IF ctx.oauthClient = NULL
       THEN HandlerThrows(r, Response(r, "metadata", "", ""), "TypeError")
       ELSE Send(r, Response(r, "metadata", "json", "clientMetadata"))
    /\ HandlerFrame

\* The dids an exchange may return.
Dids == {"did:plc:alice", "did:plc:bob"}

\* Line 155: assertPath(config?.loginRedirect) || `${globals.prefixPath}/userinfo`
loginRedirectOf(cfg, g) ==
    IF assertPath(cfg.loginRedirect) # "" THEN assertPath(cfg.loginRedirect)
    ELSE g.prefixPath \o "/userinfo"

\* Line 148: clientSession.did = session.did
sessionDid(did) == did

\* Lines 140-158.  failed: the await of lines 145-149 that throws, if any
\* (the exchange, the session open, the save); did: what the exchange returns.
HandleCallback(r) ==
    /\ Dispatched(r, 2)
    /\ \E failed \in {"none", "callback", "getSession", "save"}, did \in Dids :
         LET exchanged == IF ctx.oauthClient = NULL \/ failed = "callback"
                          THEN NULL ELSE did
             base == [Response(r, "callback", "", "") EXCEPT !.exchanged = exchanged]
         IN  IF ctx.oauthClient = NULL \/ failed # "none"
             THEN Send(r, [base EXCEPT !.kind = "redirect", !.body = "/?error"])
             ELSE LET saved == [base EXCEPT !.did = sessionDid(did)]
                  IN  IF PathThrows(config.loginRedirect)
                      THEN HandlerThrows(r, saved, "Error: assertPath")
                      ELSE Send(r, [saved EXCEPT !.kind = "redirect",
                                                 !.body = loginRedirectOf(config, globals)])
    /\ HandlerFrame

\* @atproto/syntax isValidHandle.
isValidHandle(handle) == handle \in {"alice.test"}

\* A check of the parameter's type alone.
LoginRejects_TypeOnly(handle) == handle = Absent

\* Line 166: typeof handle !== 'string' || !isValidHandle(handle)
LoginRejects(handle) == handle = Absent \/ ~isValidHandle(handle)

\* Lines 161-186.
HandleLogin(r) ==
    /\ Dispatched(r, 3)
    /\ \E handle \in {Absent, "not_a_handle", "alice.test"} :
         LET base == [Response(r, "login", "json", "") EXCEPT !.handle = handle]
         IN  IF LoginRejects(handle)
             THEN Send(r, [base EXCEPT !.body =
                      "{handle:" \o (IF handle = Absent THEN "" ELSE handle)
                          \o ",error:invalid handle}"])
             ELSE \E outcome \in {"url", "OAuthResolverError", "Error"} :
                    CASE ctx.oauthClient = NULL ->
                           Send(r, [base EXCEPT !.body = "{error:couldn't initiate login}"])
                      [] outcome = "url" ->
                           Send(r, [base EXCEPT !.authorize = handle,
                                                !.kind = "redirect",
                                                !.body = "https://pds.example/authorize"])
                      [] outcome = "OAuthResolverError" ->
                           Send(r, [base EXCEPT !.authorize = handle,
                                                !.body = "{error:resolver message}"])
                      [] OTHER ->
                           Send(r, [base EXCEPT !.authorize = handle,
                                                !.body = "{error:couldn't initiate login}"])
    /\ HandlerFrame

\* Lines 189-200.
HandleUserinfo(r) ==
    /\ Dispatched(r, 4)
    /\ \E outcome \in {"none", "failed", "user"} :
         CASE outcome = "none" ->
                Send(r, Response(r, "userinfo", "json", "{user:null,info:not logged-in}"))
           [] outcome = "failed" ->
                Send(r, Response(r, "userinfo", "json", "{user:null,error}"))
           [] OTHER ->
                Send(r, Response(r, "userinfo", "json", "{user}"))
    /\ HandlerFrame

\* ------------------------------------------------------------ specification
Next ==
    \/ MigrateDone
    \/ MigrateThrows
    \/ SecretDone
    \/ SecretThrows
    \/ \E r \in Reqs : GateFailed(r)
    \/ \E r \in Reqs : GatePending(r)
    \/ \E r \in Reqs : GateReady(r)
    \/ \E r \in Reqs : CreateClientDone(r)
    \/ \E r \in Reqs : CreateClientThrows(r)
    \/ \E r \in Reqs : PassThrough(r)
    \/ \E r \in Reqs : HandleMetadata(r)
    \/ \E r \in Reqs : HandleCallback(r)
    \/ \E r \in Reqs : HandleLogin(r)
    \/ \E r \in Reqs : HandleUserinfo(r)

Spec == Init /\ [][Next]_vars

\* ------------------------------------------------------------------ claims
Passed(r) == req[r] \in {"createClient", "next"}

\* r enters the gate in this step.
Enters(r) == req[r] = "new" /\ req'[r] # "new"

InitializingResp(r) == Response(r, "gate", "503", "Service initializing")

InvalidUrlResp(r) == Response(r, "gate", "503", "Invalid publicUrl provided!")

\* C1: a request that enters the gate while bootstrap is pending (no error
\* recorded, and db, cookie secret or resolver unset) is answered 503
\* "Service initializing" and is done: it never reaches a route handler.
C1_PendingGets503 ==
    [][\A r \in Reqs :
         /\ (/\ Enters(r)
             /\ ~Truthy(initError)
             /\ (ctx.db = NULL \/ globals.cookieSecret = "" \/ ctx.resolver = NULL))
            => (req'[r] = "done" /\ resp' = InitializingResp(r))
         /\ req[r] = "done" => req'[r] = "done"]_vars

C1_Witness ==
    /\ resp = InitializingResp(1)
    /\ bpc = "migrate"
    /\ globals.cookieSecret # ""

\* C2: once an error is recorded, it stays the recorded error, and every
\* request that enters the gate is forwarded to next() with that error,
\* whatever step threw; none is answered 503.
C2_FailedForwardsError ==
    [][Truthy(initError) =>
         /\ initError' = initError
         /\ \A r \in Reqs :
              Enters(r) =>
                 /\ req'[r] = "done"
                 /\ resp' = Response(r, "gate", "next(err)", initError)]_vars

C2_Witness ==
    /\ Truthy(initError)
    /\ req[1] = "done"
    /\ resp = Response(2, "gate", "next(err)", initError)

\* The bootstrap state as the gate reads it.
BootState == GateState(initError, ctx, globals)

\* C3: READY and FAILED are terminal, and after a step has thrown the task
\* is over: no later step runs (no migration, no secret fetch, no resolver).
C3_BootstrapTerminal ==
    [][/\ BootState = "READY" => BootState' = "READY"
       /\ BootState = "FAILED" => BootState' = "FAILED"
       /\ threw =>
            /\ bpc = "done"
            /\ bpc' = bpc
            /\ initError' = initError
            /\ migrated' = migrated
            /\ nFetch' = nFetch
            /\ ctx'.db = ctx.db
            /\ ctx'.resolver = ctx.resolver
            /\ globals'.cookieSecret = globals.cookieSecret]_vars

C3_Witness ==
    /\ threw
    /\ migrated
    /\ BootState = "FAILED"
    /\ resp.kind = "next(err)"

\* C4: once publicUrl is non-empty no step changes it, and once basePath is
\* non-empty no step changes it, whatever the later requests carry.
C4_ResolvedOnce ==
    [][/\ globals.publicUrl # "" => globals'.publicUrl = globals.publicUrl
       /\ globals.basePath # "" => globals'.basePath = globals.basePath]_vars

C4_Witness ==
    /\ globals.publicUrl # ""
    /\ globals.basePath # ""
    /\ Passed(1)
    /\ Passed(2)

\* C5: registerRoutes runs at most once, and exactly once as soon as a
\* request has passed the gate: the router holds the four endpoints, each
\* bound once, or nothing.
C5_RegisteredOnce ==
    /\ Len(routes) \in {0, 4}
    /\ routesRegistered <=> Len(routes) = 4
    /\ (\E r \in Reqs : Passed(r)) => routesRegistered
    /\ \A i, j \in 1..Len(routes) : routes[i] = routes[j] => i = j

C5_Witness ==
    /\ req[1] = "createClient"
    /\ req[2] = "createClient"
    /\ Len(routes) = 4

\* C6: with no static public URL, detection never leaves publicUrl at the
\* INVALID sentinel and no request is answered "Invalid publicUrl".
C6_AutoDetectNeverInvalid ==
    config.publicUrl = Absent =>
        /\ globals.publicUrl # INVALID
        /\ ~(resp.kind = "503" /\ resp.body = "Invalid publicUrl provided!")

\* The static public URL is malformed.
StaticInvalid == config.publicUrl # Absent /\ assertPublicUrl(config.publicUrl) = INVALID

\* C7: with a malformed static public URL, basePath is never computed,
\* routes are never registered, createClient is never called, and every
\* request that enters the gate with bootstrap READY is answered 503
\* "Invalid publicUrl" and is done.
C7_StaticInvalidStops ==
    /\ [](StaticInvalid =>
            /\ globals.basePath = ""
            /\ ~routesRegistered
            /\ routes = << >>
            /\ ctx.oauthClient = NULL
            /\ nCreate = 0
            /\ \A r \in Reqs : req[r] \in {"new", "done"})
    /\ [][\A r \in Reqs :
            (/\ StaticInvalid
             /\ Enters(r)
             /\ ~Truthy(initError)
             /\ ctx.db # NULL /\ globals.cookieSecret # "" /\ ctx.resolver # NULL)
            => (req'[r] = "done" /\ resp' = InvalidUrlResp(r))]_vars

C7_Witness ==
    /\ StaticInvalid
    /\ req[1] = "done"
    /\ resp = InvalidUrlResp(2)

\* C8: createClient is invoked at most once for the instance.
C8_SingleClient == nCreate <= 1

\* C9: whenever a request is in createClient, routes are registered,
\* publicUrl is neither empty nor INVALID, and baseUrl, prefixPath,
\* prefixRoute and basePath are all non-empty.
C9_ClientAfterFreeze ==
    \A r \in Reqs :
       req[r] = "createClient" =>
          /\ routesRegistered
          /\ globals.publicUrl \notin {"", INVALID}
          /\ globals.baseUrl # ""
          /\ globals.prefixPath # ""
          /\ globals.prefixRoute # ""
          /\ globals.basePath # ""

\* C10: the detection block runs at most once: never with a static public
\* URL, and exactly once as soon as a request has gone past the PENDING
\* check without one.
C10_DetectOnce ==
    /\ nDetect <= 1
    /\ config.publicUrl # Absent => nDetect = 0
    /\ (config.publicUrl = Absent /\ (routesRegistered \/ globals.publicUrl # ""))
          => nDetect = 1

C10_Witness ==
    /\ nDetect = 1
    /\ Passed(1)
    /\ Passed(2)

\* The callback saved a session: the exchange, the open and the save went
\* through.
CallbackSucceeded == resp.by = "callback" /\ resp.did # NULL

\* C11: a successful callback saves the did the exchange returned and then
\* redirects to <prefixPath>/userinfo when no loginRedirect is configured,
\* and to the configured path when one is.
C11_CallbackRedirect ==
    CallbackSucceeded =>
       /\ resp.did = resp.exchanged
       /\ config.loginRedirect = Absent =>
             /\ resp.kind = "redirect"
             /\ resp.body = globals.prefixPath \o "/userinfo"
       /\ config.loginRedirect = "/home" =>
             /\ resp.kind = "redirect"
             /\ resp.body = "/home"

\* C12: a failure in the callback handler ends in the redirect "/?error",
\* and no route handler forwards an exception with next(err), whatever
\* configuration the instance was built with.
C12_NoHandlerError ==
    /\ (resp.by = "callback" /\ resp.did = NULL)
          => (resp.kind = "redirect" /\ resp.body = "/?error")
    /\ resp.by \in {"metadata", "callback", "login", "userinfo"}
          => resp.kind # "next(err)"

\* C13: a login whose handle is absent or not a valid handle is answered
\* with { handle, error: 'invalid handle' } echoing the handle and calls
\* authorize never; authorize is called with valid handles only.
C13_InvalidHandleRejected ==
    resp.by = "login" =>
       /\ (resp.handle = Absent \/ ~isValidHandle(resp.handle)) =>
             /\ resp.kind = "json"
             /\ resp.body = "{handle:"
                               \o (IF resp.handle = Absent THEN "" ELSE resp.handle)
                               \o ",error:invalid handle}"
             /\ resp.authorize = NULL
       /\ resp.authorize # NULL =>
             /\ resp.authorize = resp.handle
             /\ isValidHandle(resp.authorize)

C13_Witness ==
    /\ resp.by = "login"
    /\ resp.handle = "not_a_handle"
    /\ resp.authorize = NULL

\* C14: once routes are registered no step, of a request or of the
\* bootstrap task, changes any field of globals, and basePath stays
\* baseUrl followed by prefixPath.
C14_ConfigFrozen ==
    /\ [](routesRegistered =>
            globals.basePath = globals.baseUrl \o globals.prefixPath)
    /\ [][routesRegistered => globals' = globals]_vars

C14_Witness ==
    /\ routesRegistered
    /\ req[1] = "done"
    /\ resp.req = 2
    /\ resp.by \in {"metadata", "callback", "login", "userinfo"}

FailedResp(r) == Response(r, "gate", "next(err)", initError)

\* r enters the gate in this step and gets past the PENDING check.
PassesPending(r) ==
    /\ Enters(r)
    /\ resp' \notin {InitializingResp(r), FailedResp(r)}

\* C15: whenever a request gets past the PENDING check the db is open,
\* migration has completed, the cookie secret is non-empty and the resolver
\* is constructed: the bootstrap task is over, also with a static secret.
C15_NoPartialReady ==
    [][\A r \in Reqs :
          PassesPending(r) =>
             /\ ctx.db # NULL
             /\ migrated
             /\ globals.cookieSecret # ""
             /\ ctx.resolver # NULL
             /\ bpc = "done"]_vars

C15_Witness ==
    /\ config.cookieSecret = "static-secret"
    /\ Passed(1)
    /\ migrated
    /\ ctx.resolver # NULL

\* C16: once the bootstrap task is over, by finishing or by a throw, no
\* request that enters the gate is answered 503 "Service initializing".
C16_NoPendingAfterBootstrap ==
    [][\A r \in Reqs :
          (bpc = "done" /\ Enters(r)) => resp' # InitializingResp(r)]_vars

\* C17: with a static secret getOrCreateCookieSecret is never called and the
\* secret stays the configured one; without one the secret is written by
\* the one resumption of the bootstrap task after the fetch, and never once
\* routes are registered (a request has passed the gate).
C17_SecretWriteOnce ==
    /\ [](config.cookieSecret # Absent =>
            /\ nFetch = 0
            /\ globals.cookieSecret = config.cookieSecret)
    /\ [](nFetch <= 1)
    /\ [][globals'.cookieSecret # globals.cookieSecret =>
            /\ config.cookieSecret = Absent
            /\ globals.cookieSecret = ""
            /\ bpc = "secret"
            /\ bpc' = "done"
            /\ ~routesRegistered]_vars

C17_Witness ==
    /\ config.cookieSecret = Absent
    /\ nFetch = 1
    /\ globals.cookieSecret = "generated-secret"
    /\ resp.by = "userinfo"

\* C18: a request that the gate has handed to the routes finds a protocol
\* client: no handler runs with ctx.oauthClient null, and none has thrown
\* for the lack of one.
C18_HandlerHasClient ==
    /\ \A r \in Reqs : req[r] = "next" => ctx.oauthClient # NULL
    /\ resp.by \in {"metadata", "callback", "login", "userinfo"}
          => (ctx.oauthClient # NULL /\ resp.body # "TypeError")

C18_Witness ==
    /\ req[1] = "createClient"
    /\ req[2] = "next"
    /\ ctx.oauthClient # NULL

\* C19: a request that enters the gate with bootstrap FAILED or PENDING
\* changes neither globals, ctx, the recorded error, the registered flag
\* nor the routes.
C19_RejectedChangesNothing ==
    [][\A r \in Reqs :
          (/\ Enters(r)
           /\ \/ Truthy(initError)
              \/ ctx.db = NULL
              \/ globals.cookieSecret = ""
              \/ ctx.resolver = NULL)
          => UNCHANGED << globals, ctx, initError, routesRegistered, routes >>]_vars

C19_Witness ==
    /\ resp = Response(2, "gate", "503", "Service initializing")
    /\ req[1] = "done"
    /\ globals.basePath = ""
    /\ ~routesRegistered

====
